---- MODULE Spec2Model ----
(***************************************************************************)
(* Model of app/services/auth.py: the AuthService (password hashing, token *)
(* creation and validation, registration, login, lookup) and the four role *)
(* guards built on get_current_user.                                       *)
(*                                                                         *)
(* The clock counts ticks; TicksPerSecond ticks make one second.  The JWT  *)
(* library stores and compares time claims in whole seconds, so a datetime *)
(* is truncated when it is encoded (Timegm).                               *)
(***************************************************************************)
EXTENDS Integers, Sequences, FiniteSets, TLC

VARIABLES users, now, issued, registered, op, result

vars == <<users, now, issued, registered, op, result>>

(* ------------------------------ bounds --------------------------------- *)
MaxRegistrations == 2
MaxTokens == 1
TicksPerSecond == 2
jwt_expiration == 1

MaxTime == 8

Usernames == {"alice", "bob"}
Passwords == {"pw123", "wrong"}
Emails == {"a@x.com"}

(* ------------------------------ settings ------------------------------- *)
jwt_secret == "secret"
jwt_algorithm == "HS256"
OtherSecret == "other-secret"
OtherAlgorithm == "HS512"

RoleNames == {"user", "instructor", "administrator"}

(* ------------------------------ outcomes ------------------------------- *)
HTTPException(status_code, detail) ==
    [kind |-> "HTTPException", status_code |-> status_code, detail |-> detail]

InvalidCredentialsToken == HTTPException(406, "Could not validate credentials.")
InvalidCredentialsLogin == HTTPException(406, "Incorrect username or password.")
NotFound == HTTPException(406, "User with this id does not exist.")

AttributeError == [kind |-> "AttributeError"]

UserOutcome(user) == [kind |-> "User", user |-> user]
TokenOutcome(token) == [kind |-> "Token", access_token |-> token]
StoredUserOutcome(row) == [kind |-> "StoredUser", user |-> row]
ListOutcome(rows) == [kind |-> "List", users |-> rows]

(* --------------------------- PasswordHasher ---------------------------- *)
\* bcrypt: the hash carries its salt; the digest is a collision-free function
\* of salt and password.
Digest(salt, password) == <<salt, password>>

hash_password(password, salt) == [salt |-> salt, digest |-> Digest(salt, password)]

verify_password(plain_password, hashed_password) ==
    Digest(hashed_password.salt, plain_password) = hashed_password.digest

(* ------------------------------ TokenCodec ----------------------------- *)
\* timegm(dt.utctimetuple()): a datetime as whole seconds.
Timegm(dt) == dt \div TicksPerSecond

\* timedelta(seconds=s) in ticks.
Timedelta(seconds) == seconds * TicksPerSecond

TimeClaims == {"iat", "nbf", "exp"}

\* jwt.encode: datetime claims become whole seconds, the claims are signed
\* with the key under the algorithm.
jwt_encode(payload, key, algorithm) ==
    [form |-> "jws", alg |-> algorithm, key |-> key,
     claims |-> [c \in DOMAIN payload |->
                   IF c \in TimeClaims THEN Timegm(payload[c]) ELSE payload[c]]]

GarbageToken == [form |-> "garbage"]

JWTError == [ok |-> FALSE]

\* Variant: a token is refused from its expiry second on.
jwt_decode_exclusive(token, key, algorithms, clock) ==
    IF token.form # "jws" THEN [ok |-> FALSE]
    ELSE IF token.alg \notin algorithms THEN [ok |-> FALSE]
    ELSE IF token.key # key THEN [ok |-> FALSE]
    ELSE IF "nbf" \in DOMAIN token.claims /\ token.claims.nbf > Timegm(clock) THEN [ok |-> FALSE]
    ELSE IF "exp" \in DOMAIN token.claims /\ token.claims.exp <= Timegm(clock) THEN [ok |-> FALSE]
    ELSE [ok |-> TRUE, payload |-> token.claims]

\* Variant: the signature is not checked against the key.
jwt_decode_unverified(token, key, algorithms, clock) ==
    IF token.form # "jws" THEN [ok |-> FALSE]
    ELSE IF token.alg \notin algorithms THEN [ok |-> FALSE]
    ELSE IF "nbf" \in DOMAIN token.claims /\ token.claims.nbf > Timegm(clock) THEN [ok |-> FALSE]
    ELSE IF "exp" \in DOMAIN token.claims /\ token.claims.exp < Timegm(clock) THEN [ok |-> FALSE]
    ELSE [ok |-> TRUE, payload |-> token.claims]

\* jwt.decode: structure, algorithm and signature, then nbf and exp against
\* the current time in whole seconds.
jwt_decode(token, key, algorithms, clock) ==
    IF token.form # "jws" THEN JWTError
    ELSE IF token.alg \notin algorithms THEN JWTError
    ELSE IF token.key # key THEN JWTError
    ELSE IF "nbf" \in DOMAIN token.claims /\ token.claims.nbf > Timegm(clock) THEN JWTError
    ELSE IF "exp" \in DOMAIN token.claims /\ token.claims.exp < Timegm(clock) THEN JWTError
    ELSE [ok |-> TRUE, payload |-> token.claims]

UserFields == {"id", "username", "email", "role_name"}

\* payload.get('user')
PayloadGet(payload, claim) ==
    IF claim \in DOMAIN payload THEN [some |-> TRUE, val |-> payload[claim]]
    ELSE [some |-> FALSE]

ValidationError == [ok |-> FALSE]

\* User.parse_obj: None or a dict lacking a required field is a
\* ValidationError; extra keys are dropped.
parse_obj(user_data) ==
    IF ~user_data.some THEN ValidationError
    ELSE IF ~(UserFields \subseteq DOMAIN user_data.val) THEN ValidationError
    ELSE [ok |-> TRUE, user |-> [f \in UserFields |-> user_data.val[f]]]

\* Variant: username and email change places.
from_orm_swapped(row) ==
    [id |-> row.id, username |-> row.email, email |-> row.username,
     role_name |-> row.role_name]

\* User.from_orm followed by .dict()
from_orm(row) == [f \in UserFields |-> row[f]]

\* Variant: the ValidationError of parse_obj is not caught.
validate_token_uncaught(token, clock) ==
    LET decoded == jwt_decode(token, jwt_secret, {jwt_algorithm}, clock) IN
    IF ~decoded.ok THEN InvalidCredentialsToken
    ELSE LET parsed == parse_obj(PayloadGet(decoded.payload, "user")) IN
         IF ~parsed.ok THEN [kind |-> "ValidationError"]
         ELSE UserOutcome(parsed.user)

validate_token(token, clock) ==
    LET decoded == jwt_decode(token, jwt_secret, {jwt_algorithm}, clock) IN
    IF ~decoded.ok THEN InvalidCredentialsToken
    ELSE LET parsed == parse_obj(PayloadGet(decoded.payload, "user")) IN
         IF ~parsed.ok THEN InvalidCredentialsToken
         ELSE UserOutcome(parsed.user)

CreatePayload(user_data, clock) ==
    [iat |-> clock,
     nbf |-> clock,
     exp |-> clock + Timedelta(jwt_expiration),
     sub |-> ToString(user_data.id),
     user |-> user_data]

create_token(row, clock) ==
    jwt_encode(CreatePayload(from_orm(row), clock), jwt_secret, jwt_algorithm)

get_current_user(token, clock) == validate_token(token, clock)

(* ------------------------------ RoleGuard ------------------------------ *)
is_administrator(current_user) ==
    IF current_user.role_name # "administrator"
    THEN HTTPException(400, "User is not administrator.")
    ELSE UserOutcome(current_user)

is_not_administrator(current_user) ==
    IF current_user.role_name = "administrator"
    THEN HTTPException(400, "User is administrator.")
    ELSE UserOutcome(current_user)

\* Variant: instructors are turned away.
is_instructor_or_higher_strict(current_user) ==
    IF current_user.role_name \notin {"administrator"}
    THEN HTTPException(400, "User is not instructor or high.")
    ELSE UserOutcome(current_user)

is_instructor_or_higher(current_user) ==
    IF current_user.role_name \notin {"instructor", "administrator"}
    THEN HTTPException(400, "User is not instructor or high.")
    ELSE UserOutcome(current_user)

is_instructor(current_user) ==
    IF current_user.role_name # "instructor"
    THEN HTTPException(400, "User is not instructor.")
    ELSE UserOutcome(current_user)

(* ------------------------------ user store ----------------------------- *)
None == [some |-> FALSE]
Some(v) == [some |-> TRUE, val |-> v]

Rows(store) == {store[i] : i \in 1..Len(store)}

\* session.add + session.commit: the row is appended and the database
\* assigns the next identifier; no column is constrained to be unique.
SessionAdd(store, row) == Append(store, [row EXCEPT !.id = Len(store) + 1])

\* query(...).first(): no ORDER BY, so any matching row may come first;
\* None when there is none.
First(rows) == IF rows = {} THEN {None} ELSE {Some(r) : r \in rows}

QueryById(store, user_id) == First({r \in Rows(store) : r.id = user_id})

QueryByUsername(store, username) == First({r \in Rows(store) : r.username = username})

\* bcrypt.hash draws a fresh random salt: one no stored hash carries.
FreshSalts(store) == {Len(store) + 1}

\* Rows present before any registration of this run (created out of band).
SeedRow(id, username, role_name) ==
    [id |-> id, email |-> "a@x.com", username |-> username,
     password_hash |-> hash_password("pw123", id), role_name |-> role_name]

InitialStores ==
    { << >>,
      << SeedRow(1, "root", "administrator"), SeedRow(2, "teach", "instructor"),
         SeedRow(3, "carol", "user") >> }

(* ------------------------------ AuthService ---------------------------- *)
\* _get: the row or the 406 raised when the query found none.
_get(store, user) ==
    IF ~user.some THEN NotFound ELSE StoredUserOutcome(user.val)

\* Variant: the role is taken from the input.
NewUserRowWithInputRole(user_data, salt) ==
    [id |-> 0,
     email |-> user_data.email,
     username |-> user_data.username,
     password_hash |-> hash_password(user_data.password, salt),
     role_name |-> user_data.role_name]

\* register_new_user up to the commit: the row built from the input.
NewUserRow(user_data, salt) ==
    [id |-> 0,
     email |-> user_data.email,
     username |-> user_data.username,
     password_hash |-> hash_password(user_data.password, salt),
     role_name |-> "user"]

\* authenticate_user after the query: `if not User` tests the class, which
\* is always true-valued, so a None result reaches user.password_hash.
authenticate_user(user, password, clock) ==
    IF ~user.some THEN AttributeError
    ELSE IF ~verify_password(password, user.val.password_hash)
         THEN InvalidCredentialsLogin
         ELSE TokenOutcome(create_token(user.val, clock))

\* get_list: all rows, or those of one role, in storage order.
get_list(store, role_name) ==
    IF role_name.some
    THEN SelectSeq(store, LAMBDA r : r.role_name = role_name.val)
    ELSE store

(* ------------------------- tokens held by clients ---------------------- *)
\* A token kept by a client, with the tick of its issuance and the row it
\* was issued for.
Held(token, row) == [token |-> token, at |-> now, row |-> row]

Retain(token, row) ==
    IF Cardinality(issued) < MaxTokens THEN issued \cup {Held(token, row)} ELSE issued

\* Tokens a caller can present that this service did not just issue: noise,
\* tokens signed with another key or algorithm, and tokens signed with the
\* configured key whose claims are incomplete or not yet valid.
ForgedUser ==
    [id |-> 1, username |-> "alice", email |-> "a@x.com", role_name |-> "administrator"]

ForeignTokens(clock) ==
    { GarbageToken,
      jwt_encode(CreatePayload(ForgedUser, clock), OtherSecret, jwt_algorithm),
      jwt_encode(CreatePayload(ForgedUser, clock), jwt_secret, OtherAlgorithm),
      jwt_encode([exp |-> clock + Timedelta(jwt_expiration), sub |-> "1"],
                 jwt_secret, jwt_algorithm),
      jwt_encode([exp |-> clock + Timedelta(jwt_expiration), sub |-> "1",
                  user |-> [username |-> "alice"]],
                 jwt_secret, jwt_algorithm),
      jwt_encode(CreatePayload(ForgedUser, clock + Timedelta(1)),
                 jwt_secret, jwt_algorithm) }

Presentable == {h.token : h \in issued} \cup ForeignTokens(now)

\* Guarded requests: a held token, or one that get_current_user rejects.
GuardPresentable == {h.token : h \in issued} \cup {GarbageToken}

(* ------------------------------ actions -------------------------------- *)
Idle == [name |-> "idle"]

NoOutcome == [kind |-> "none"]

Init ==
    /\ users \in InitialStores
    /\ now = 0
    /\ issued = {}
    /\ registered = {}
    /\ op = Idle
    /\ result = NoOutcome

\* Requests are handled one at a time, each at one instant: the response is
\* returned before the next request starts or the clock advances.
Respond ==
    /\ op # Idle
    /\ op' = Idle
    /\ result' = NoOutcome
    /\ UNCHANGED <<users, now, issued, registered>>

Tick ==
    /\ op = Idle
    /\ now < MaxTime
    /\ now' = now + 1
    /\ UNCHANGED <<users, issued, registered, op, result>>

\* A client drops a token it held.
Forget ==
    /\ op = Idle
    /\ \E h \in issued : issued' = issued \ {h}
    /\ UNCHANGED <<users, now, registered, op, result>>

RegisterNewUser(user_data, salt) ==
    LET store == SessionAdd(users, NewUserRow(user_data, salt))
        user == store[Len(store)]
        token == create_token(user, now)
    IN /\ op = Idle
       /\ Cardinality(registered) < MaxRegistrations
       /\ users' = store
       /\ registered' = registered \cup
              {[id |-> user.id, username |-> user_data.username,
                password |-> user_data.password]}
       /\ issued' = Retain(token, user)
       /\ op' = [name |-> "register_new_user", user_data |-> user_data]
       /\ result' = TokenOutcome(token)
       /\ UNCHANGED now

\* Variant: a successful login stores a fresh hash of the password.
AuthenticateUserRehash(username, password) ==
    \E user \in QueryByUsername(users, username) :
       LET outcome == authenticate_user(user, password, now) IN
       /\ op = Idle
       /\ result' = outcome
       /\ issued' = IF outcome.kind = "Token" THEN Retain(outcome.access_token, user.val) ELSE issued
       /\ op' = [name |-> "authenticate_user", username |-> username,
                 password |-> password, user |-> user]
       /\ users' = IF outcome.kind = "Token"
                   THEN [users EXCEPT ![user.val.id].password_hash =
                            hash_password(password, Len(users) + 1)]
                   ELSE users
       /\ UNCHANGED <<now, registered>>

AuthenticateUser(username, password) ==
    \E user \in QueryByUsername(users, username) :
       LET outcome == authenticate_user(user, password, now) IN
       /\ op = Idle
       /\ result' = outcome
       /\ issued' = IF outcome.kind = "Token" THEN Retain(outcome.access_token, user.val) ELSE issued
       /\ op' = [name |-> "authenticate_user", username |-> username,
                 password |-> password, user |-> user]
       /\ UNCHANGED <<users, now, registered>>

Get(user_id) ==
    \E user \in QueryById(users, user_id) :
       /\ op = Idle
       /\ result' = _get(users, user)
       /\ op' = [name |-> "get", user_id |-> user_id]
       /\ UNCHANGED <<users, now, issued, registered>>

GetList(role_name) ==
    /\ op = Idle
    /\ result' = ListOutcome(get_list(users, role_name))
    /\ op' = [name |-> "get_list", role_name |-> role_name]
    /\ UNCHANGED <<users, now, issued, registered>>

CreateToken(i) ==
    LET token == create_token(users[i], now) IN
    /\ op = Idle
    /\ result' = TokenOutcome(token)
    /\ issued' = Retain(token, users[i])
    /\ op' = [name |-> "create_token", user |-> users[i]]
    /\ UNCHANGED <<users, now, registered>>

ValidateToken(token) ==
    /\ op = Idle
    /\ result' = validate_token(token, now)
    /\ op' = [name |-> "validate_token", token |-> token]
    /\ UNCHANGED <<users, now, issued, registered>>

GuardNames ==
    {"is_administrator", "is_not_administrator", "is_instructor_or_higher", "is_instructor"}

ApplyGuard(guard, current_user) ==
    CASE guard = "is_administrator" -> is_administrator(current_user)
      [] guard = "is_not_administrator" -> is_not_administrator(current_user)
      [] guard = "is_instructor_or_higher" -> is_instructor_or_higher(current_user)
      [] guard = "is_instructor" -> is_instructor(current_user)

\* A guarded request: Depends(get_current_user) resolves the user first; its
\* failure ends the request before the guard runs.
Guard(guard, token) ==
    LET resolved == get_current_user(token, now) IN
    /\ op = Idle
    /\ result' = IF resolved.kind = "User" THEN ApplyGuard(guard, resolved.user)
                 ELSE resolved
    /\ op' = [name |-> guard, token |-> token, current_user |-> resolved]
    /\ UNCHANGED <<users, now, issued, registered>>

UserCreates ==
    [email : Emails, username : Usernames, password : Passwords,
     role_name : {"user", "administrator"}]

Register ==
    \E user_data \in UserCreates, salt \in FreshSalts(users) : RegisterNewUser(user_data, salt)

Authenticate ==
    \E username \in Usernames, password \in Passwords : AuthenticateUser(username, password)

GetUser == \E user_id \in 1..(Len(users) + 1) : Get(user_id)

ListUsers == \E role_name \in {None} \cup {Some(r) : r \in RoleNames} : GetList(role_name)

IssueToken == \E i \in 1..Len(users) : CreateToken(i)

Validate == \E token \in Presentable : ValidateToken(token)

Guarded == \E guard \in GuardNames, token \in GuardPresentable : Guard(guard, token)

\* Every request of the service, in any order, as time passes.
Next ==
    \/ Respond
    \/ Tick
    \/ Forget
    \/ Register
    \/ Authenticate
    \/ GetUser
    \/ ListUsers
    \/ IssueToken
    \/ Validate
    \/ Guarded

Spec == Init /\ [][Next]_vars

\* Every request of the service, in any order, at one instant.
NextRequests ==
    \/ Respond
    \/ Register
    \/ Authenticate
    \/ GetUser
    \/ ListUsers
    \/ IssueToken
    \/ Validate
    \/ Guarded

SpecRequests == Init /\ [][NextRequests]_vars

\* Tokens over time, for the users of an initial store.
NextSession ==
    \/ Respond
    \/ Tick
    \/ Forget
    \/ IssueToken
    \/ Validate
    \/ Guarded

SpecSession == Init /\ [][NextSession]_vars

(* ------------------------------ error taxonomy ------------------------- *)
\* The outcomes are told apart by their status: InvalidCredentials is the
\* "not acceptable" status, Forbidden the status the guards raise.
IsInvalidCredentials(r) == r.kind = "HTTPException" /\ r.status_code = 406

IsForbidden(r) == r.kind = "HTTPException" /\ r.status_code = 400

WellFormedUser(u) == DOMAIN u = UserFields

Matching(username) == {r \in Rows(users) : r.username = username}

(* ------------------------------ C1 ------------------------------------- *)
\* C1: authenticate_user fails with InvalidCredentials when no stored user
\* has the username, fails with InvalidCredentials when the password does not
\* verify against the found user's hash, and otherwise returns a Token for
\* that stored user; there is no other outcome.
C1_AuthenticateOutcomes ==
    op.name = "authenticate_user" =>
        IF Matching(op.username) = {} THEN IsInvalidCredentials(result)
        ELSE IF ~verify_password(op.password, op.user.val.password_hash)
             THEN IsInvalidCredentials(result)
             ELSE /\ result.kind = "Token"
                  /\ validate_token(result.access_token, now)
                        = UserOutcome(from_orm(op.user.val))

(* ------------------------------ C2 ------------------------------------- *)
HeldAs(token) == {h \in issued : h.token = token}

\* C2 as claimed: a token issued at time t is accepted at time now if and
\* only if t <= now < t + ttl, and is refused with InvalidCredentials at every
\* time at or after its expiry.
C2_AcceptedStrictlyBeforeExpiry ==
    op.name = "validate_token" =>
        \A h \in HeldAs(op.token) :
            /\ result.kind = "User"
                  <=> (h.at <= now /\ now < h.at + Timedelta(jwt_expiration))
            /\ now >= h.at + Timedelta(jwt_expiration) => IsInvalidCredentials(result)

AcceptedThroughExpirySecond ==
    op.name = "validate_token" =>
        \A h \in HeldAs(op.token) :
            /\ result.kind = "User"
                  <=> /\ Timegm(h.at) <= Timegm(now)
                      /\ Timegm(now) <= Timegm(h.at) + jwt_expiration
            /\ Timegm(now) > Timegm(h.at) + jwt_expiration => IsInvalidCredentials(result)

RejectedAsExpired(h, clock) ==
    /\ clock >= h.at
    /\ validate_token(h.token, clock).kind # "User"

ExpiredStaysExpired ==
    \A h \in issued :
        RejectedAsExpired(h, now) => validate_token(h.token, now').kind # "User"

\* C2 (amended): a token issued in second s is accepted exactly in the
\* seconds s .. s + ttl, the expiry second included; in every later second it
\* is refused with InvalidCredentials; and a token refused as expired is
\* refused at every later time.
C2_AcceptedThroughExpirySecond ==
    [] AcceptedThroughExpirySecond /\ [][ExpiredStaysExpired]_vars

\* Witness: a held token accepted in its expiry second, ttl seconds or more
\* after it was issued.
C2_Witness ==
    /\ op.name = "validate_token"
    /\ result.kind = "User"
    /\ \E h \in HeldAs(op.token) :
          /\ now >= h.at + Timedelta(jwt_expiration)
          /\ Timegm(now) = h.token.claims.exp

(* ------------------------------ C3 ------------------------------------- *)
\* C3: validating a token within ttl seconds of its issuance returns a User
\* whose id, username, email and role name are those of the stored user it
\* was issued for, and the token's subject is that user's id as a string.
C3_RoundTrip ==
    op.name = "validate_token" =>
        \A h \in HeldAs(op.token) :
            now <= h.at + Timedelta(jwt_expiration) =>
                /\ result.kind = "User"
                /\ result.user.id = h.row.id
                /\ result.user.username = h.row.username
                /\ result.user.email = h.row.email
                /\ result.user.role_name = h.row.role_name
                /\ h.token.claims.sub = ToString(h.row.id)

\* Witness: a held token validated some ticks after issuance, inside ttl.
C3_Witness ==
    /\ op.name = "validate_token"
    /\ result.kind = "User"
    /\ \E h \in HeldAs(op.token) :
          /\ h.at < now
          /\ now <= h.at + Timedelta(jwt_expiration)
          /\ result.user.username = h.row.username

(* ------------------------------ C4 ------------------------------------- *)
SignedWithOtherSecret(token) == token.form = "jws" /\ token.key # jwt_secret

\* C4: a token signed with a secret other than jwt_secret is refused with
\* InvalidCredentials and yields no User, at every time.
C4_OtherSecretRejected ==
    (op.name = "validate_token" /\ SignedWithOtherSecret(op.token)) =>
        /\ IsInvalidCredentials(result)
        /\ result.kind # "User"

\* Witness: such a token, inside its validity window, was refused.
C4_Witness ==
    /\ op.name = "validate_token"
    /\ SignedWithOtherSecret(op.token)
    /\ op.token.claims.nbf <= Timegm(now)
    /\ Timegm(now) <= op.token.claims.exp
    /\ IsInvalidCredentials(result)

(* ------------------------------ C5 ------------------------------------- *)
\* C5: once register_new_user(email, username, password) has succeeded, a
\* later authenticate_user(username, password) returns a valid Token that
\* decodes to a User with that username and role "user", and
\* authenticate_user(username, w) with w # password fails with
\* InvalidCredentials, whatever other registrations happened in between.
C5_RegisterThenLogin ==
    op.name = "authenticate_user" =>
        \A r \in registered :
            r.username = op.username =>
                IF op.password = r.password
                THEN /\ result.kind = "Token"
                     /\ LET decoded == validate_token(result.access_token, now) IN
                        /\ decoded.kind = "User"
                        /\ decoded.user.username = op.username
                        /\ decoded.user.role_name = "user"
                ELSE IsInvalidCredentials(result)

(* ------------------------------ C6 ------------------------------------- *)
RegisteredHaveRoleUser ==
    /\ \A r \in registered :
          /\ r.id \in 1..Len(users)
          /\ users[r.id].id = r.id
          /\ users[r.id].role_name = "user"
    /\ op.name = "register_new_user" =>
          /\ result.kind = "Token"
          /\ validate_token(result.access_token, now)
                = UserOutcome(from_orm(users[Len(users)]))

RegistrationAddsOneRow ==
    registered' # registered =>
        /\ Len(users') = Len(users) + 1
        /\ SubSeq(users', 1, Len(users)) = users
        /\ users'[Len(users')].role_name = "user"
        /\ users'[Len(users')].username = op'.user_data.username
        /\ users'[Len(users')].email = op'.user_data.email
        /\ \A r \in Rows(users) : users'[Len(users')].id # r.id

\* C6: a successful register_new_user adds exactly one stored user, with a
\* new id and role "user" whatever the input holds, returns a token that
\* decodes to that user and leaves the earlier users unchanged; every user
\* registered through the service has role "user".
C6_RegisterAddsOneUserRoleUser ==
    [] RegisteredHaveRoleUser /\ [][RegistrationAddsOneRow]_vars

\* Witness: a registration asking for the administrator role, added to a
\* store that already held users.
C6_Witness ==
    /\ op.name = "register_new_user"
    /\ op.user_data.role_name = "administrator"
    /\ Len(users) > 1
    /\ users[Len(users)].role_name = "user"

(* ------------------------------ C7 ------------------------------------- *)
Allowed(guard, role_name) ==
    CASE guard = "is_administrator" -> role_name = "administrator"
      [] guard = "is_not_administrator" -> role_name # "administrator"
      [] guard = "is_instructor_or_higher" -> role_name \in {"instructor", "administrator"}
      [] guard = "is_instructor" -> role_name = "instructor"

\* C7: for a resolved user of any role, each guard returns that same User
\* exactly when its policy allows the role, and otherwise fails with
\* Forbidden, which is neither InvalidCredentials nor NotFound.
C7_RoleGuardTable ==
    (op.name \in GuardNames /\ op.current_user.kind = "User") =>
        LET u == op.current_user.user IN
        /\ u.role_name \in RoleNames
        /\ IF Allowed(op.name, u.role_name)
           THEN result = UserOutcome(u)
           ELSE /\ IsForbidden(result)
                /\ ~IsInvalidCredentials(result)
                /\ result.status_code # NotFound.status_code

\* Witness: an instructor passed the instructor-or-admin guard.
C7_Witness ==
    /\ op.name = "is_instructor_or_higher"
    /\ op.current_user.kind = "User"
    /\ op.current_user.user.role_name = "instructor"
    /\ result.kind = "User"

(* ------------------------------ C8 ------------------------------------- *)
ValidlySigned(token, clock) ==
    jwt_decode(token, jwt_secret, {jwt_algorithm}, clock).ok

Conforms(token) ==
    /\ "user" \in DOMAIN token.claims
    /\ UserFields \subseteq DOMAIN token.claims.user

\* C8: whatever token is presented, validate_token yields a well-formed User
\* or InvalidCredentials and nothing else; a validly signed token whose user
\* claim is missing or does not conform is refused.
C8_OnlyUserOrInvalidCredentials ==
    op.name = "validate_token" =>
        /\ \/ result.kind = "User" /\ WellFormedUser(result.user)
           \/ IsInvalidCredentials(result)
        /\ (ValidlySigned(op.token, now) /\ ~Conforms(op.token)) =>
              IsInvalidCredentials(result)

\* Witness: a validly signed, unexpired token without a user claim was refused.
C8_Witness ==
    /\ op.name = "validate_token"
    /\ ValidlySigned(op.token, now)
    /\ "user" \notin DOMAIN op.token.claims
    /\ IsInvalidCredentials(result)

(* ------------------------------ C9 ------------------------------------- *)
GetOutcome ==
    op.name = "get" =>
        LET found == {r \in Rows(users) : r.id = op.user_id} IN
        IF found # {}
        THEN result.kind = "StoredUser" /\ result.user \in found
        ELSE /\ result.kind = "HTTPException"
             /\ ~IsInvalidCredentials(result)
             /\ ~IsForbidden(result)

GetLeavesStore == op'.name = "get" => users' = users

\* C9: get(user_id) returns the stored user with that id when there is one
\* and fails with NotFound when there is none; NotFound is an outcome other
\* than InvalidCredentials and Forbidden; the store is unchanged either way.
C9_GetOrNotFound ==
    [] GetOutcome /\ [][GetLeavesStore]_vars

(* ------------------------------ C10 ------------------------------------ *)
\* C10: only register_new_user changes the user store; every other request
\* (authenticate_user, get, get_list, create_token, validate_token and the
\* four guards), succeeding or failing, leaves every stored user as it was.
C10_OnlyRegisterChangesStore ==
    [][op'.name # "register_new_user" => users' = users]_vars

\* Witness: a successful login over a store that holds registered users.
C10_Witness ==
    /\ op.name = "authenticate_user"
    /\ result.kind = "Token"
    /\ registered # {}

====
